---- MODULE Spec2Model ----
(***************************************************************************)
(* Model of the DXF geometry-reconstruction engine of                      *)
(* backend/plant/dxf_parser.py: the entity collector, the geometry         *)
(* builder, the topology reconstructor, the metrics aggregator and the     *)
(* output assembler of parse_dxf_to_geojson, as a state machine of calls   *)
(* that run on one shared, read-only drawing.                              *)
(*                                                                         *)
(* Coordinates are integers on a small grid and the drawings are built     *)
(* from axis-aligned shapes, so areas and lengths are exact integers; the  *)
(* scale factor is a positive integer.                                     *)
(***************************************************************************)
EXTENDS Integers, Sequences, FiniteSets, TLC

\* Bounds of the model.
MaxEntities == 2
MaxScale == 2
MaxPolygons == 3
MaxVertices == 3

\* Python's None.
None == "None"

Calls == {1, 2}

(***************************************************************************)
(* Sequence helpers.                                                       *)
(***************************************************************************)
RECURSIVE SeqSum(_)
SeqSum(s) == IF s = <<>> THEN 0 ELSE Head(s) + SeqSum(Tail(s))

RECURSIVE Flatten(_)
Flatten(ss) == IF ss = <<>> THEN <<>> ELSE Head(ss) \o Flatten(Tail(ss))

Range(s) == {s[k] : k \in 1..Len(s)}

Last(s) == s[Len(s)]

Abs(n) == IF n < 0 THEN -n ELSE n

\* Integer square root (floor); exact on the axis-aligned edges of the model.
Isqrt(n) == CHOOSE r \in 0..n : r * r <= n /\ (r + 1) * (r + 1) > n

(***************************************************************************)
(* str.upper() on the layer names of the model.                            *)
(***************************************************************************)
Upper(name) ==
    CASE name = "wall" -> "WALL"
      [] name = "Wall" -> "WALL"
      [] name = "notes" -> "NOTES"
      [] name = "Notes" -> "NOTES"
      [] name = "roof" -> "ROOF"
      [] OTHER -> name

(***************************************************************************)
(* shapely: LineString, Polygon and their measures.                        *)
(***************************************************************************)
\* A geometry is a record [geom_type, coords]; coords of a Polygon is its
\* exterior ring, closing point included, as shapely's exterior.coords.
LineString(pts) == [geom_type |-> "LineString", coords |-> pts]

Polygon(ring) == [geom_type |-> "Polygon", coords |-> ring]

\* Polygon(points) closes the ring when the caller did not.
PolygonOf(points) ==
    IF points[1] = Last(points) THEN Polygon(points)
    ELSE Polygon(Append(points, points[1]))

is_empty(g) == g.coords = <<>>

RECURSIVE Shoelace(_)
Shoelace(ring) ==
    IF Len(ring) < 2 THEN 0
    ELSE ring[1][1] * ring[2][2] - ring[2][1] * ring[1][2] + Shoelace(Tail(ring))

RECURSIVE PathLength(_)
PathLength(pts) ==
    IF Len(pts) < 2 THEN 0
    ELSE Isqrt((pts[2][1] - pts[1][1]) * (pts[2][1] - pts[1][1])
             + (pts[2][2] - pts[1][2]) * (pts[2][2] - pts[1][2]))
         + PathLength(Tail(pts))

\* poly.area: never negative.
area(poly) == Abs(Shoelace(poly.coords)) \div 2

\* poly.length: the perimeter of the exterior ring.
length(poly) == PathLength(poly.coords)

\* poly.is_valid for the rings of the model: a ring that encloses area.
is_valid(poly) == Len(poly.coords) >= 4 /\ Shoelace(poly.coords) # 0

\* shapely.geometry.mapping: the GeoJSON geometry, coordinates unchanged.
mapping(g) == [type |-> g.geom_type, coordinates |-> g.coords]

(***************************************************************************)
(* Curve tessellation.                                                     *)
(***************************************************************************)
\* Number of angular steps of a bulge arc.
segments == 12

\* The point of the arc half way between start and end: the chord's middle
\* moved by the sagitta, bulge * chord / 2, to the right of the direction
\* from start to end for a positive bulge, to the left for a negative one.
ArcMiddle(start, end, bulge) ==
    <<(start[1] + end[1] + bulge * (end[2] - start[2])) \div 2,
      (start[2] + end[2] - bulge * (end[1] - start[1])) \div 2>>

\* The point k / n of the way from a to b.
Between(a, b, k, n) ==
    <<a[1] + ((b[1] - a[1]) * k) \div n, a[2] + ((b[2] - a[2]) * k) \div n>>

\* Sample k of the segments + 1 samples of a bulged segment. The first and
\* the last are the end points (up to rounding, in the code) and the one in
\* the middle is the middle of the arc; the others lie on the arc, which the
\* integer grid cannot hold, and the model places them on the two chords
\* through the middle.
ArcSample(start, end, bulge, k) ==
    IF k = 0 THEN start
    ELSE IF k = segments THEN end
    ELSE IF 2 * k <= segments
    THEN Between(start, ArcMiddle(start, end, bulge), 2 * k, segments)
    ELSE Between(ArcMiddle(start, end, bulge), end, 2 * k - segments, segments)

\* bulge_to_arc as it would be with the chord tested before the bulge.
bulge_to_arc_chord_first(start, end, bulge) ==
    IF start = end THEN <<start>>
    ELSE IF bulge = 0 THEN <<start, end>>
    ELSE [k \in 1..(segments + 1) |-> ArcSample(start, end, bulge, k - 1)]

bulge_to_arc(start, end, bulge) ==
    IF bulge = 0 THEN <<start, end>>
    ELSE IF start = end THEN <<start>>
    ELSE [k \in 1..(segments + 1) |-> ArcSample(start, end, bulge, k - 1)]

(***************************************************************************)
(* The drawing: entities, blocks and the layer table.                      *)
(***************************************************************************)
Entity(type, layer, pts, closed, text, height, malformed) ==
    [type |-> type, layer |-> layer, name |-> "", pts |-> pts,
     bulges |-> [k \in 1..Len(pts) |-> 0], closed |-> closed, text |-> text,
     height |-> height, malformed |-> malformed]

Insert(layer, name) ==
    [type |-> "INSERT", layer |-> layer, name |-> name, pts |-> <<>>,
     bulges |-> <<>>, closed |-> FALSE, text |-> "", height |-> None,
     malformed |-> FALSE]

\* The 2 x 1 rectangle A and the unit square B, two disjoint rings.
RectA == << <<0, 0>>, <<2, 0>>, <<2, 1>>, <<0, 1>> >>
SquareB == << <<0, 2>>, <<1, 2>>, <<1, 3>>, <<0, 3>> >>

LineNotes == Entity("LINE", "Notes", << <<0, 0>>, <<2, 0>> >>, FALSE, "", None, FALSE)
LineBad == Entity("LINE", "WALL", <<>>, FALSE, "", None, TRUE)
RectWall == Entity("LWPOLYLINE", "WALL", RectA, TRUE, "", None, FALSE)
SquareNotes == Entity("LWPOLYLINE", "Notes", SquareB, TRUE, "", None, FALSE)
OpenWall == Entity("LWPOLYLINE", "WALL", RectA, FALSE, "", None, FALSE)
HatchWall == Entity("HATCH", "WALL", RectA, TRUE, "", None, FALSE)
TextNotes == Entity("TEXT", "Notes", << <<1, 1>> >>, FALSE, "A", "3.0", FALSE)
TextEmpty == Entity("MTEXT", "WALL", << <<1, 1>> >>, FALSE, "", None, FALSE)

\* The entities a model-space drawing is built from.
Catalog ==
    {LineNotes, LineBad, RectWall, SquareNotes, OpenWall, HatchWall, TextNotes,
     TextEmpty}

\* An entity of a kind the collector does not support.
Dimension == Entity("DIMENSION", "WALL", <<>>, FALSE, "", None, FALSE)

\* doc.blocks: block name -> the entities of the block definition. B2 holds
\* a reference to B1, and LOOP holds a reference to itself.
Blocks ==
    [b \in {"B1", "B2", "LOOP"} |->
        CASE b = "B1" -> <<LineNotes>>
          [] b = "B2" -> <<RectWall, Insert("WALL", "B1"), Dimension>>
          [] OTHER -> <<Insert("0", "LOOP")>>]

\* The entities a drawing with block references is built from: references
\* to a plain block, to a block with a nested reference, to a circular block
\* and to a block the document does not define.
BlockCatalog ==
    {SquareNotes, TextNotes, Dimension, Insert("WALL", "B1"),
     Insert("WALL", "B2"), Insert("0", "LOOP"), Insert("0", "GONE")}

\* doc.layers: the layer table of the document.
DocLayers == <<"0", "WALL", "Notes", "ROOF">>

Drawings == UNION {[1..n -> Catalog] : n \in 0..MaxEntities}

\* An open polyline along three sides of a rectangle far from the others.
OpenFar ==
    Entity("LWPOLYLINE", "ROOF",
           << <<1000, 0>>, <<1002, 0>>, <<1002, 1>>, <<1000, 1>> >>,
           FALSE, "", None, FALSE)

\* The entities a drawing of curves is built from: closed rings, open
\* curves near and far, and a single segment.
TopologyCatalog == {RectWall, SquareNotes, OpenWall, OpenFar, LineNotes}

TopologyDrawings == UNION {[1..n -> TopologyCatalog] : n \in 0..MaxEntities}

\* The lightweight polylines of up to MaxVertices vertices on three corners
\* of a square, with a bulge of -1, 0 or 1 at every vertex, open and closed.
Corners == {<<0, 0>>, <<2, 0>>, <<2, 2>>}

BulgeValues == {-1, 0, 1}

Polylines ==
    UNION {{[Entity("LWPOLYLINE", "WALL", pts, closed, "", None, FALSE)
                EXCEPT !.bulges = bs] :
                pts \in [1..n -> Corners], bs \in [1..n -> BulgeValues],
                closed \in BOOLEAN} : n \in 1..MaxVertices}

\* An MTEXT with a text and no character height attribute.
MTextPlain == Entity("MTEXT", "WALL", << <<2, 1>> >>, FALSE, "B", None, FALSE)

\* The entities a drawing with annotations is built from: texts with and
\* without a character height, an empty text and a closed ring.
TextCatalog == {TextNotes, MTextPlain, TextEmpty, RectWall}

TextDrawings == UNION {[1..n -> TextCatalog] : n \in 0..MaxEntities}

BlockDrawings == UNION {[1..n -> BlockCatalog] : n \in 0..MaxEntities}

(***************************************************************************)
(* Entity Collector: get_entities_from_modelspace_and_blocks.              *)
(***************************************************************************)
supported_types ==
    {"LINE", "LWPOLYLINE", "POLYLINE", "ARC", "CIRCLE", "ELLIPSE", "SPLINE",
     "TEXT", "MTEXT", "HATCH", "POINT"}

\* target_layers values: None, or a str / list / tuple / set of names.
Target(type, names) == [type |-> type, names |-> names]

TargetNone == Target("None", {})

TargetValues ==
    {TargetNone, Target("str", {"wall"}), Target("set", {"NOTES"}),
     Target("list", {}), Target("tuple", {"roof", "Wall"})}

\* normalized_target_layers of a target_layers that is not None: a str is
\* one name, a list or tuple becomes a set, every name is upper-cased.
normalized_target_layers(target_layers) ==
    {Upper(n) : n \in target_layers.names}

\* The filter as it would be with the entity's layer compared as written.
should_include_case_sensitive(entity, target_layers) ==
    IF target_layers = TargetNone THEN TRUE
    ELSE entity.layer \in normalized_target_layers(target_layers)

should_include_in_filter(entity, target_layers) ==
    IF target_layers = TargetNone THEN TRUE
    ELSE Upper(entity.layer) \in normalized_target_layers(target_layers)

\* block.virtual_entities(e): the entities of the block; a missing block
\* makes the lookup fail, and the reference is skipped.
virtual_entities(e) ==
    IF e.name \in DOMAIN Blocks THEN Blocks[e.name] ELSE <<>>

RECURSIVE SelectSupported(_)
SelectSupported(es) ==
    IF es = <<>> THEN <<>>
    ELSE (IF Head(es).type \in supported_types THEN <<Head(es)>> ELSE <<>>)
         \o SelectSupported(Tail(es))

RECURSIVE all_raw_entities(_)
all_raw_entities(msp) ==
    IF msp = <<>> THEN <<>>
    ELSE (IF Head(msp).type \in supported_types THEN <<Head(msp)>>
          ELSE IF Head(msp).type = "INSERT"
               THEN SelectSupported(virtual_entities(Head(msp)))
          ELSE <<>>)
         \o all_raw_entities(Tail(msp))

RECURSIVE FilterEntities(_, _)
FilterEntities(es, target_layers) ==
    IF es = <<>> THEN <<>>
    ELSE (IF should_include_in_filter(Head(es), target_layers)
          THEN <<Head(es)>> ELSE <<>>)
         \o FilterEntities(Tail(es), target_layers)

get_entities_from_modelspace_and_blocks(msp, target_layers) ==
    FilterEntities(all_raw_entities(msp), target_layers)

(***************************************************************************)
(* Geometry Builder: one entity to at most one curve, region or point.     *)
(* An optional value is a sequence of length 0 (None) or 1.                *)
(***************************************************************************)
\* The LWPOLYLINE branch as it would be with the closing segment taking
\* the bulge of the first vertex.
lwpolyline_new_pts_first_bulge(e) ==
    Flatten([k \in 1..(Len(e.pts) - 1) |->
                bulge_to_arc(e.pts[k], e.pts[k + 1], e.bulges[k])])
    \o (IF e.closed
        THEN bulge_to_arc(Last(e.pts), e.pts[1], e.bulges[1])
        ELSE <<>>)

\* The LWPOLYLINE branch: every consecutive vertex pair is tessellated, and
\* a closed polyline gets the closing segment with the last vertex's bulge.
lwpolyline_new_pts(e) ==
    Flatten([k \in 1..(Len(e.pts) - 1) |->
                bulge_to_arc(e.pts[k], e.pts[k + 1], e.bulges[k])])
    \o (IF e.closed
        THEN bulge_to_arc(Last(e.pts), e.pts[1], Last(e.bulges))
        ELSE <<>>)

\* LineString(new_pts) raises on a single point: caught, no geometry.
lwpolyline_geometry(e) ==
    IF Len(e.pts) >= 2 /\ Len(lwpolyline_new_pts(e)) # 1
    THEN <<LineString(lwpolyline_new_pts(e))>>
    ELSE <<>>

\* arc_to_linestring, circle_to_linestring and the flattening of ELLIPSE and
\* SPLINE: the entity's pts are the flattened points; a failure gives None.
flattened_geometry(e) ==
    IF e.malformed \/ (e.type = "ARC" /\ Len(e.pts) < 2) THEN <<>>
    ELSE <<LineString(e.pts)>>

\* geometry_obj of a line-like entity that converts without raising.
geometry_obj(e) ==
    CASE e.type = "LINE" -> <<LineString(<<e.pts[1], e.pts[2]>>)>>
      [] e.type = "LWPOLYLINE" -> lwpolyline_geometry(e)
      [] e.type = "POLYLINE" ->
            IF Len(e.pts) >= 2 THEN <<LineString(e.pts)>> ELSE <<>>
      [] OTHER -> flattened_geometry(e)

LineLike ==
    {"LINE", "ARC", "CIRCLE", "ELLIPSE", "SPLINE", "POLYLINE", "LWPOLYLINE"}

\* The conversions that no try/except guards: a malformed LINE, TEXT or
\* MTEXT raises out of the entity loop.
conversion_raises(e) ==
    e.malformed /\ e.type \in {"LINE", "TEXT", "MTEXT"}

\* parse_hatch_to_polygons: one boundary path per hatch in the model.
parse_hatch_to_polygons(e) ==
    IF ~e.malformed /\ Len(e.pts) > 2
    THEN <<PolygonOf(IF e.closed /\ e.pts[1] # Last(e.pts)
                     THEN Append(e.pts, e.pts[1]) ELSE e.pts)>>
    ELSE <<>>

\* parse_text_to_point as it would be without the test of line 128.
parse_text_keep_empty(e) ==
    <<[type |-> "Feature",
       geometry |-> [type |-> "Point", coordinates |-> e.pts],
       properties |-> [layer |-> e.layer, type |-> e.type,
                       text |-> e.text, height |-> e.height]]>>

\* parse_text_to_point: None for an empty text.
parse_text_to_point(e) ==
    IF e.text # ""
    THEN <<[type |-> "Feature",
            geometry |-> [type |-> "Point", coordinates |-> e.pts],
            properties |-> [layer |-> e.layer, type |-> e.type,
                            text |-> e.text, height |-> e.height]]>>
    ELSE <<>>

point_feature(e) ==
    IF e.malformed THEN <<>>
    ELSE <<[type |-> "Feature",
            geometry |-> [type |-> "Point", coordinates |-> e.pts],
            properties |-> [layer |-> e.layer, type |-> e.type]]>>

\* An entry of original_drawing_entities.
drawing_entity(g, e) == [geometry |-> g, layer |-> e.layer, type |-> e.type]

(***************************************************************************)
(* Topology Reconstructor: unary_union, polygonize and the alpha shape.    *)
(* The drawings of the model hold rings that are disjoint or identical,    *)
(* and open curves that run along the edges of a ring without closing a    *)
(* face, so the faces of the noded line network are the distinct rings.    *)
(***************************************************************************)
\* Noding drops the zero-length segments of repeated points.
RECURSIVE Dedup(_)
Dedup(pts) ==
    IF Len(pts) < 2 THEN pts
    ELSE IF pts[1] = pts[2] THEN Dedup(Tail(pts))
    ELSE <<pts[1]>> \o Dedup(Tail(pts))

IsRing(pts) == Len(pts) >= 4 /\ pts[1] = Last(pts) /\ Shoelace(pts) # 0

\* merged_lines.geom_type of unary_union(lines), lines not empty.
merged_geom_type(lines) ==
    IF Cardinality({Dedup(l.coords) : l \in Range(lines)}) = 1
    THEN "LineString" ELSE "MultiLineString"

\* polygonize(merged_lines): one polygon per distinct ring, in the order of
\* first appearance.
RECURSIVE polygonize(_, _)
polygonize(lines, seen) ==
    IF lines = <<>> THEN <<>>
    ELSE LET ring == Dedup(Head(lines).coords)
         IN  IF IsRing(ring) /\ ring \notin seen
             THEN <<Polygon(ring)>> \o polygonize(Tail(lines), seen \cup {ring})
             ELSE polygonize(Tail(lines), seen)

\* all_pts: every coordinate of every curve.
all_pts(lines) == Flatten([k \in 1..Len(lines) |-> lines[k].coords])

Cross(o, a, b) ==
    (a[1] - o[1]) * (b[2] - o[2]) - (a[2] - o[2]) * (b[1] - o[1])

Dist2(a, b) ==
    (a[1] - b[1]) * (a[1] - b[1]) + (a[2] - b[2]) * (a[2] - b[2])

Collinear(P) == \A o \in P, a \in P, b \in P : Cross(o, a, b) = 0

MinPoint(P) ==
    CHOOSE p \in P : \A q \in P : p[1] < q[1] \/ (p[1] = q[1] /\ p[2] <= q[2])

\* The next vertex of the convex hull after vertex p, counter-clockwise.
HullNext(P, p) ==
    CHOOSE q \in P \ {p} :
        \A r \in P \ {p, q} :
            \/ Cross(p, q, r) > 0
            \/ Cross(p, q, r) = 0 /\ Dist2(p, r) < Dist2(p, q)

RECURSIVE HullWalk(_, _, _, _)
HullWalk(P, first, p, fuel) ==
    LET q == HullNext(P, p)
    IN  IF q = first \/ fuel = 0 THEN <<p, first>>
        ELSE <<p>> \o HullWalk(P, first, q, fuel - 1)

ConvexHullRing(P) == HullWalk(P, MinPoint(P), MinPoint(P), Cardinality(P))

\* 1 / 0.01, the largest circumradius a triangle of the alpha shape may have.
alpha_radius == 100

\* The points of P that a triangle of the alpha shape can join to p: no
\* side of a triangle is longer than twice its circumradius.
ClusterOf(P, p) == {q \in P : Dist2(p, q) < 4 * alpha_radius * alpha_radius}

Clusters(P) == {ClusterOf(P, p) : p \in P}

\* The hulls of the clusters that hold a triangle, from left to right.
RECURSIVE HullsOf(_)
HullsOf(Cs) ==
    IF Cs = {} THEN <<>>
    ELSE LET C == CHOOSE X \in Cs :
                    \A Y \in Cs : MinPoint(X \cup Y) = MinPoint(X)
         IN  <<Polygon(ConvexHullRing(C))>> \o HullsOf(Cs \ {C})

\* alphashape.alphashape(all_pts, 0.01): the triangles of the Delaunay
\* triangulation with a circumradius below 1 / 0.01 = 100, merged. The
\* drawings of the model keep their points in clusters a few units wide and
\* far more than 200 apart, so the triangles are those within a cluster and
\* their union is the convex hull of the cluster: one Polygon for one
\* cluster with a triangle, a MultiPolygon for more; points on one line have
\* no triangle and give no polygon.
alphashape(pts) ==
    LET parts == HullsOf({C \in Clusters(Range(pts)) :
                            Cardinality(C) >= 3 /\ ~Collinear(C)})
    IN  [geom_type |-> IF Len(parts) = 0 THEN "LineString"
                       ELSE IF Len(parts) = 1 THEN "Polygon"
                       ELSE "MultiPolygon",
         parts |-> parts]

\* The polygons of lines 353-374: exact polygonization first, the alpha
\* shape only when it gave nothing.
exact_polygons(lines) ==
    IF lines # <<>> /\ merged_geom_type(lines) \in {"LineString", "MultiLineString"}
    THEN polygonize(lines, {})
    ELSE <<>>

alpha_polygons(lines) ==
    LET outline == alphashape(all_pts(lines))
    IN  IF outline.geom_type \in {"Polygon", "MultiPolygon"}
        THEN outline.parts ELSE <<>>

\* Lines 353-374 as they would be with the alpha shape added whatever the
\* exact polygonization gave.
reconstruct_both(lines) ==
    IF lines = <<>> THEN <<>>
    ELSE exact_polygons(lines) \o alpha_polygons(lines)

reconstruct(lines) ==
    IF lines = <<>> THEN <<>>
    ELSE IF Len(exact_polygons(lines)) = 0 THEN alpha_polygons(lines)
    ELSE exact_polygons(lines)

(***************************************************************************)
(* Metrics and output.                                                     *)
(***************************************************************************)
\* "vertices": len(list(poly.exterior.coords)).
vertex_count(poly) == Len(poly.coords)

\* The area as it would be with the scale factor applied once.
scaled_area_linear(poly, scale_factor) == area(poly) * scale_factor

scaled_area(poly, scale_factor) == area(poly) * (scale_factor * scale_factor)

scaled_perimeter(poly, scale_factor) == length(poly) * scale_factor

\* data of one valid polygon.
construction(poly, scale_factor) ==
    [area |-> scaled_area(poly, scale_factor),
     perimeter |-> scaled_perimeter(poly, scale_factor),
     vertices |-> vertex_count(poly)]

polygon_feature(poly, scale_factor) ==
    [type |-> "Feature", properties |-> construction(poly, scale_factor),
     geometry |-> mapping(poly)]

\* The count as it would be if the entry were set to 1 instead of added to.
RECURSIVE increment_overwrite(_, _)
increment_overwrite(layer_count, layer) ==
    IF layer_count = <<>> THEN <<[layer |-> layer, count |-> 1]>>
    ELSE IF Head(layer_count).layer = layer
         THEN <<[layer |-> layer, count |-> 1]>> \o Tail(layer_count)
    ELSE <<Head(layer_count)>> \o increment_overwrite(Tail(layer_count), layer)

\* layer_count[layer] += 1 on a dict that keeps insertion order: a sequence
\* of [layer, count] entries.
RECURSIVE increment(_, _)
increment(layer_count, layer) ==
    IF layer_count = <<>> THEN <<[layer |-> layer, count |-> 1]>>
    ELSE IF Head(layer_count).layer = layer
         THEN <<[layer |-> layer, count |-> Head(layer_count).count + 1]>>
              \o Tail(layer_count)
    ELSE <<Head(layer_count)>> \o increment(Tail(layer_count), layer)

\* [layer.dxf.name for layer in doc.layers].
layer_names == DocLayers

\* The error as it would be without the message of the filtered case.
no_geometry_error_generic(target_layers) ==
    [type |-> "ValueError",
     message |-> "No supported geometric entities found in the file.",
     layers |-> <<>>]

no_geometry_error(target_layers) ==
    IF target_layers # TargetNone
    THEN [type |-> "ValueError",
          message |-> "No entities found in the selected layers. Available layers:",
          layers |-> layer_names]
    ELSE [type |-> "ValueError",
          message |-> "No supported geometric entities found in the file.",
          layers |-> <<>>]

\* A failure that reaches the outer handler of parse_dxf_to_geojson.
processing_error ==
    [type |-> "Exception", message |-> "Error processing DXF", layers |-> <<>>]

\* json.dumps of a feature collection: the serialized text stands for the
\* structure it was written from.
json_dumps(fc) == [serialized |-> fc]

feature_collection(features) == [type |-> "FeatureCollection", features |-> features]

drawing_feature(item) ==
    [type |-> "Feature", geometry |-> mapping(item.geometry),
     properties |-> [layer |-> item.layer, type |-> item.type]]

\* The metadata as it would be with only the curves and hatch regions
\* counted as entities found.
metadata_of_curves_only(st) ==
    [constructions |-> st.constructions,
     total_constructions |-> Len(st.constructions),
     entities_per_layer |-> st.layer_count,
     layers |-> [k \in 1..Len(st.layer_count) |-> st.layer_count[k].layer],
     total_area_m2 |-> st.total_area,
     total_perimeter_m |-> st.total_perimeter,
     total_entities_found |-> Len(st.original_drawing_entities)]

\* Lines 402-411.
metadata_of(st) ==
    [constructions |-> st.constructions,
     total_constructions |-> Len(st.constructions),
     entities_per_layer |-> st.layer_count,
     layers |-> [k \in 1..Len(st.layer_count) |-> st.layer_count[k].layer],
     total_area_m2 |-> st.total_area,
     total_perimeter_m |-> st.total_perimeter,
     total_entities_found |->
        Len(st.original_drawing_entities) + Len(st.features_non_geometry)]

\* The mode of a call: preview when target_layers is None.
is_preview(target_layers) == target_layers = TargetNone

\* The return as it would be with the point features put first.
return_value_points_first(st) ==
    IF is_preview(st.target_layers)
    THEN [geojson |-> json_dumps(feature_collection(
              st.features_non_geometry
              \o [k \in 1..Len(st.original_drawing_entities) |->
                  drawing_feature(st.original_drawing_entities[k])])),
          metadata |-> metadata_of(st),
          third |-> st.original_drawing_entities]
    ELSE [geojson |-> json_dumps(feature_collection(
              st.features_non_geometry \o st.features)),
          metadata |-> metadata_of(st),
          third |-> st.polygons]

\* The return as it would be without the preview branch.
return_value_polygons(st) ==
    [geojson |-> json_dumps(feature_collection(
        st.features \o st.features_non_geometry)),
     metadata |-> metadata_of(st),
     third |-> st.polygons]

\* The returned triple of lines 413-431.
return_value(st) ==
    IF is_preview(st.target_layers)
    THEN [geojson |-> json_dumps(feature_collection(
              [k \in 1..Len(st.original_drawing_entities) |->
                  drawing_feature(st.original_drawing_entities[k])]
              \o st.features_non_geometry)),
          metadata |-> metadata_of(st),
          third |-> st.original_drawing_entities]
    ELSE [geojson |-> json_dumps(feature_collection(
              st.features \o st.features_non_geometry)),
          metadata |-> metadata_of(st),
          third |-> st.polygons]

(***************************************************************************)
(* The state machine: calls of parse_dxf_to_geojson on one document.       *)
(***************************************************************************)
VARIABLES
    msp,    \* the model space of the document every call reads
    call    \* call[c]: the parameters, locals, position and outcome of call c

vars == <<msp, call>>

\* The locals as they would be with a layer-count table kept at module
\* level: a call starts from the table the other call has filled.
shared_locals(calls, c) ==
    [lines |-> <<>>, features_non_geometry |-> <<>>,
     layer_count |-> calls[3 - c].layer_count,
     original_drawing_entities |-> <<>>]

\* The locals a call creates on entry (lines 214-218 and 376-379).
fresh_locals(calls, c) ==
    [lines |-> <<>>, features_non_geometry |-> <<>>, layer_count |-> <<>>,
     original_drawing_entities |-> <<>>]

\* The state of call c on entry, before the collector runs.
enter(calls, c, target_layers, scale_factor) ==
    [pc |-> "collect", target_layers |-> target_layers,
     scale_factor |-> scale_factor, entities_to_process |-> <<>>, i |-> 1,
     lines |-> fresh_locals(calls, c).lines,
     features_non_geometry |-> fresh_locals(calls, c).features_non_geometry,
     layer_count |-> fresh_locals(calls, c).layer_count,
     original_drawing_entities |-> fresh_locals(calls, c).original_drawing_entities,
     polygons |-> <<>>, j |-> 1, features |-> <<>>, constructions |-> <<>>,
     total_area |-> 0, total_perimeter |-> 0, result |-> <<>>, error |-> <<>>,
     pending |-> <<>>, all_raw |-> <<>>]

\* A call that was not made yet.
Idle ==
    [pc |-> "idle", target_layers |-> TargetNone, scale_factor |-> 1,
     entities_to_process |-> <<>>, i |-> 1, lines |-> <<>>,
     features_non_geometry |-> <<>>, layer_count |-> <<>>,
     original_drawing_entities |-> <<>>, polygons |-> <<>>, j |-> 1,
     features |-> <<>>, constructions |-> <<>>, total_area |-> 0,
     total_perimeter |-> 0, result |-> <<>>, error |-> <<>>,
     pending |-> <<>>, all_raw |-> <<>>]

Init ==
    /\ msp \in Drawings
    /\ call = [c \in Calls |-> Idle]

\* A caller invokes parse_dxf_to_geojson(dxf_path, scale_factor, target_layers).
Call(c, target_layers, scale_factor) ==
    /\ call[c].pc = "idle"
    /\ call' = [call EXCEPT ![c] = enter(call, c, target_layers, scale_factor)]
    /\ UNCHANGED msp

\* The metrics view issues its second parse with the same scale factor.
CallAgain(target_layers) ==
    /\ call[1].pc # "idle"
    /\ Call(2, target_layers, call[1].scale_factor)

\* Lines 220-222: the collector hands over the filtered entities.
Collect(c) ==
    /\ call[c].pc = "collect"
    /\ call' = [call EXCEPT
            ![c].entities_to_process =
                get_entities_from_modelspace_and_blocks(msp, call[c].target_layers),
            ![c].pc = "process"]
    /\ UNCHANGED msp

\* The collector's loop over the model space, one entity per step: pending
\* holds the entities the loop has not reached yet, all_raw the list it
\* builds.
BeginWalk(c) ==
    /\ call[c].pc = "collect"
    /\ call' = [call EXCEPT ![c].pending = msp, ![c].all_raw = <<>>,
                            ![c].pc = "walk"]
    /\ UNCHANGED msp

\* The loop body as it would be if it went down into the references a block
\* holds: they are put back in front of the entities still to visit.
visit_recursive(st) ==
    LET e == Head(st.pending)
    IN  IF e.type \in supported_types
        THEN [st EXCEPT !.pending = Tail(st.pending),
                        !.all_raw = Append(st.all_raw, e)]
        ELSE IF e.type = "INSERT"
        THEN [st EXCEPT
                !.pending = SelectSeq(virtual_entities(e),
                                      LAMBDA ve : ve.type = "INSERT")
                            \o Tail(st.pending),
                !.all_raw = st.all_raw \o SelectSupported(virtual_entities(e))]
        ELSE [st EXCEPT !.pending = Tail(st.pending)]

\* The loop body as it would be without the try/except of lines 188-195: a
\* reference to a block the document does not define ends the call.
visit_unguarded(st) ==
    LET e == Head(st.pending)
    IN  IF e.type \in supported_types
        THEN [st EXCEPT !.pending = Tail(st.pending),
                        !.all_raw = Append(st.all_raw, e)]
        ELSE IF e.type = "INSERT" /\ e.name \notin DOMAIN Blocks
        THEN [st EXCEPT !.pc = "raised", !.error = <<processing_error>>]
        ELSE IF e.type = "INSERT"
        THEN [st EXCEPT
                !.pending = Tail(st.pending),
                !.all_raw = st.all_raw \o SelectSupported(virtual_entities(e))]
        ELSE [st EXCEPT !.pending = Tail(st.pending)]

\* The loop body, lines 182-195: a supported entity is appended, a block
\* reference contributes the supported entities among the virtual entities
\* of its block, anything else contributes nothing.
visit(st) ==
    LET e == Head(st.pending)
    IN  IF e.type \in supported_types
        THEN [st EXCEPT !.pending = Tail(st.pending),
                        !.all_raw = Append(st.all_raw, e)]
        ELSE IF e.type = "INSERT"
        THEN [st EXCEPT
                !.pending = Tail(st.pending),
                !.all_raw = st.all_raw \o SelectSupported(virtual_entities(e))]
        ELSE [st EXCEPT !.pending = Tail(st.pending)]

VisitEntity(c) ==
    /\ call[c].pc = "walk"
    /\ call[c].pending # <<>>
    /\ call' = [call EXCEPT ![c] = visit(call[c])]
    /\ UNCHANGED msp

\* Lines 197-202: the loop is over, the filter runs on what was collected.
EndWalk(c) ==
    /\ call[c].pc = "walk"
    /\ call[c].pending = <<>>
    /\ call' = [call EXCEPT
            ![c].entities_to_process =
                FilterEntities(call[c].all_raw, call[c].target_layers),
            ![c].pc = "process"]
    /\ UNCHANGED msp

\* One iteration of the entity loop, lines 224-341.
process_entity(st, e) ==
    LET counted == [st EXCEPT !.layer_count = increment(st.layer_count, e.layer),
                              !.i = st.i + 1]
    IN  IF conversion_raises(e)
        THEN [st EXCEPT !.layer_count = increment(st.layer_count, e.layer),
                        !.pc = "raised", !.error = <<processing_error>>]
        ELSE IF e.type \in LineLike
        THEN LET g == geometry_obj(e)
             IN  IF g # <<>> /\ ~is_empty(g[1])
                 THEN [counted EXCEPT
                        !.lines = Append(st.lines, g[1]),
                        !.original_drawing_entities =
                            Append(st.original_drawing_entities,
                                   drawing_entity(g[1], e))]
                 ELSE counted
        ELSE IF e.type = "HATCH"
        THEN LET good == SelectSeq(parse_hatch_to_polygons(e),
                                   LAMBDA poly : is_valid(poly) /\ ~is_empty(poly))
             IN  [counted EXCEPT
                    !.original_drawing_entities =
                        st.original_drawing_entities
                        \o [k \in 1..Len(good) |-> drawing_entity(good[k], e)]]
        ELSE IF e.type \in {"TEXT", "MTEXT"}
        THEN [counted EXCEPT
                !.features_non_geometry =
                    st.features_non_geometry \o parse_text_to_point(e)]
        ELSE IF e.type = "POINT"
        THEN [counted EXCEPT
                !.features_non_geometry =
                    st.features_non_geometry \o point_feature(e)]
        ELSE counted

ProcessEntity(c) ==
    /\ call[c].pc = "process"
    /\ call[c].i <= Len(call[c].entities_to_process)
    /\ call' = [call EXCEPT
            ![c] = process_entity(call[c], call[c].entities_to_process[call[c].i])]
    /\ UNCHANGED msp

\* The test of line 343 as it would be if only a filtered call could fail it.
nothing_found_filtered(st) ==
    /\ Len(st.lines) = 0 /\ Len(st.features_non_geometry) = 0
    /\ st.target_layers # TargetNone

\* Lines 343-351: nothing to work with raises the no-geometry error.
nothing_found(st) == Len(st.lines) = 0 /\ Len(st.features_non_geometry) = 0

CheckGeometry(c) ==
    /\ call[c].pc = "process"
    /\ call[c].i > Len(call[c].entities_to_process)
    /\ call' = [call EXCEPT ![c] =
            IF nothing_found(call[c])
            THEN [call[c] EXCEPT !.pc = "raised",
                                 !.error = <<no_geometry_error(call[c].target_layers)>>]
            ELSE [call[c] EXCEPT !.pc = "reconstruct"]]
    /\ UNCHANGED msp

\* Lines 353-374.
Reconstruct(c) ==
    /\ call[c].pc = "reconstruct"
    /\ call' = [call EXCEPT ![c].polygons = reconstruct(call[c].lines),
                            ![c].pc = "metrics"]
    /\ UNCHANGED msp

\* The polygon loop as it would be without the test of line 382.
measure_unguarded(st, poly) ==
    [st EXCEPT
        !.total_area = st.total_area + scaled_area(poly, st.scale_factor),
        !.total_perimeter =
            st.total_perimeter + scaled_perimeter(poly, st.scale_factor),
        !.constructions =
            Append(st.constructions, construction(poly, st.scale_factor)),
        !.features =
            Append(st.features, polygon_feature(poly, st.scale_factor)),
        !.j = st.j + 1]

\* The polygon loop as it would be with the perimeter total left unscaled.
measure_unscaled_total(st, poly) ==
    IF is_valid(poly) /\ ~is_empty(poly)
    THEN [st EXCEPT
            !.total_area = st.total_area + scaled_area(poly, st.scale_factor),
            !.total_perimeter = st.total_perimeter + length(poly),
            !.constructions =
                Append(st.constructions, construction(poly, st.scale_factor)),
            !.features =
                Append(st.features, polygon_feature(poly, st.scale_factor)),
            !.j = st.j + 1]
    ELSE [st EXCEPT !.j = st.j + 1]

\* One iteration of the polygon loop, lines 381-397.
measure(st, poly) ==
    IF is_valid(poly) /\ ~is_empty(poly)
    THEN [st EXCEPT
            !.total_area = st.total_area + scaled_area(poly, st.scale_factor),
            !.total_perimeter =
                st.total_perimeter + scaled_perimeter(poly, st.scale_factor),
            !.constructions =
                Append(st.constructions, construction(poly, st.scale_factor)),
            !.features =
                Append(st.features, polygon_feature(poly, st.scale_factor)),
            !.j = st.j + 1]
    ELSE [st EXCEPT !.j = st.j + 1]

Measure(c) ==
    /\ call[c].pc = "metrics"
    /\ call[c].j <= Len(call[c].polygons)
    /\ call' = [call EXCEPT ![c] = measure(call[c], call[c].polygons[call[c].j])]
    /\ UNCHANGED msp

\* Lines 399-431: the metadata and the returned triple.
Return(c) ==
    /\ call[c].pc = "metrics"
    /\ call[c].j > Len(call[c].polygons)
    /\ call' = [call EXCEPT ![c].result = <<return_value(call[c])>>,
                            ![c].pc = "done"]
    /\ UNCHANGED msp

Scales == 1..MaxScale

\* One call at a time.
Next ==
    \/ \E t \in TargetValues, s \in Scales : Call(1, t, s)
    \/ Collect(1)
    \/ ProcessEntity(1)
    \/ CheckGeometry(1)
    \/ Reconstruct(1)
    \/ Measure(1)
    \/ Return(1)

Spec == Init /\ [][Next]_vars

\* Two calls on the same document, their steps interleaved in any order.
NextPair ==
    \/ \E t \in TargetValues, s \in Scales : Call(1, t, s)
    \/ \E t \in TargetValues : CallAgain(t)
    \/ \E c \in Calls : Collect(c)
    \/ \E c \in Calls : ProcessEntity(c)
    \/ \E c \in Calls : CheckGeometry(c)
    \/ \E c \in Calls : Reconstruct(c)
    \/ \E c \in Calls : Measure(c)
    \/ \E c \in Calls : Return(c)

SpecPair == Init /\ [][NextPair]_vars

\* One call on a drawing with block references, the collector's loop taken
\* one model-space entity at a time.
InitBlocks ==
    /\ msp \in BlockDrawings
    /\ call = [c \in Calls |-> Idle]

NextBlocks ==
    \/ \E t \in TargetValues, s \in Scales : Call(1, t, s)
    \/ BeginWalk(1)
    \/ VisitEntity(1)
    \/ EndWalk(1)
    \/ ProcessEntity(1)
    \/ CheckGeometry(1)
    \/ Reconstruct(1)
    \/ Measure(1)
    \/ Return(1)

SpecBlocks == InitBlocks /\ [][NextBlocks]_vars

\* The polygon loop of lines 376-397 on any list of polygons: two rings that
\* enclose area, a ring that crosses itself and an empty polygon.
BowTie == Polygon(<< <<0, 0>>, <<2, 2>>, <<2, 0>>, <<0, 2>>, <<0, 0>> >>)

EmptyPolygon == Polygon(<<>>)

PolygonCatalog == {PolygonOf(RectA), PolygonOf(SquareB), BowTie, EmptyPolygon}

PolygonLists == UNION {[1..n -> PolygonCatalog] : n \in 0..MaxPolygons}

InitMeasure ==
    /\ msp = <<>>
    /\ \E t \in {TargetNone, Target("str", {"wall"})}, s \in Scales,
          ps \in PolygonLists :
            call = [c \in Calls |->
                      IF c = 1
                      THEN [enter([d \in Calls |-> Idle], 1, t, s) EXCEPT
                                !.pc = "metrics", !.polygons = ps]
                      ELSE Idle]

NextMeasure ==
    \/ Measure(1)
    \/ Return(1)

SpecMeasure == InitMeasure /\ [][NextMeasure]_vars

\* The geometry builder on one lightweight polyline: the call up to the
\* test of line 343.
InitPolyline ==
    /\ \E e \in Polylines : msp = <<e>>
    /\ call = [c \in Calls |-> Idle]

NextPolyline ==
    \/ Call(1, TargetNone, 1)
    \/ Collect(1)
    \/ ProcessEntity(1)
    \/ CheckGeometry(1)

SpecPolyline == InitPolyline /\ [][NextPolyline]_vars

\* One call on a drawing with annotations.
InitText ==
    /\ msp \in TextDrawings
    /\ call = [c \in Calls |-> Idle]

SpecText == InitText /\ [][Next]_vars

\* One call on a drawing of curves.
InitTopology ==
    /\ msp \in TopologyDrawings
    /\ call = [c \in Calls |-> Idle]

SpecTopology == InitTopology /\ [][Next]_vars

\* The call runs to its end: no step that the call can take is put off
\* for ever.
SpecBlocksFair == SpecBlocks /\ WF_vars(NextBlocks)

(***************************************************************************)
(* The properties.                                                         *)
(***************************************************************************)
Returned(c) == call[c].pc = "done"

Raised(c) == call[c].pc = "raised"

\* The entity loop of call c ran to its end and the test of line 343 was made.
LoopDone(c) ==
    /\ call[c].pc \notin {"idle", "collect", "walk", "process"}
    /\ call[c].i > Len(call[c].entities_to_process)

Meta(c) == call[c].result[1].metadata

Features(c) == call[c].result[1].geojson.serialized.features

\* The entities of the drawing whose layer the filter of call c matches.
Matching(c) ==
    {k \in 1..Len(all_raw_entities(msp)) :
        \E n \in call[c].target_layers.names :
            Upper(n) = Upper(all_raw_entities(msp)[k].layer)}

\* C1: for any two calls on the same drawing that return, whatever their
\* target_layers, the entities_per_layer mappings of the metadata are
\* identical.
C1_CountsIndependentOfFilter ==
    \A a \in Calls, b \in Calls :
        Returned(a) /\ Returned(b)
            => Range(Meta(a).entities_per_layer) = Range(Meta(b).entities_per_layer)

\* C2 as stated: with target_layers None and neither a curve nor a point or
\* text feature produced, the call does not raise and returns an empty
\* feature collection.
C2_UnfilteredNeverRaises ==
    \A c \in Calls :
        /\ call[c].target_layers = TargetNone
        /\ LoopDone(c)
        /\ call[c].lines = <<>>
        /\ call[c].features_non_geometry = <<>>
        => /\ ~Raised(c)
           /\ Returned(c) => Features(c) = <<>>

\* C2 amended: with target_layers None and neither a curve nor a point or
\* text feature produced, the call raises the ValueError "No supported
\* geometric entities found in the file.", which lists no layer, and returns
\* nothing.
C2_UnfilteredRaisesGeneric ==
    \A c \in Calls :
        /\ call[c].target_layers = TargetNone
        /\ LoopDone(c)
        /\ call[c].lines = <<>>
        /\ call[c].features_non_geometry = <<>>
        => /\ Raised(c)
           /\ call[c].result = <<>>
           /\ call[c].error =
                <<[type |-> "ValueError",
                   message |-> "No supported geometric entities found in the file.",
                   layers |-> <<>>]>>

\* A drawing that holds entities, none of them a curve or a point, parsed
\* without a filter, has raised.
C2_Witness ==
    /\ msp # <<>>
    /\ call[1].target_layers = TargetNone
    /\ LoopDone(1)
    /\ Raised(1)
    /\ call[1].original_drawing_entities # <<>>

\* C3: a target_layers that is not None and matches no entity of the
\* drawing makes the call raise the ValueError whose message lists all the
\* layer names of the document; nothing is returned.
C3_NoMatchRaisesWithLayers ==
    \A c \in Calls :
        /\ call[c].target_layers # TargetNone
        /\ Matching(c) = {}
        /\ call[c].pc \notin {"idle", "collect", "process"}
        => /\ Raised(c)
           /\ call[c].result = <<>>
           /\ call[c].error[1].type = "ValueError"
           /\ call[c].error[1].layers = DocLayers

\* A drawing with entities, a filter naming a layer none of them is on, and
\* the error raised.
C3_Witness ==
    /\ msp # <<>>
    /\ call[1].target_layers = Target("set", {"NOTES"})
    /\ Matching(1) = {}
    /\ Raised(1)
    /\ call[1].error[1].layers = DocLayers

\* C4: in polygon mode, a call whose entities gave at least one curve but no
\* Region raises instead of returning empty constructions.
C4_NoRegionRaises ==
    \A c \in Calls :
        /\ call[c].target_layers # TargetNone
        /\ call[c].lines # <<>>
        /\ call[c].pc \in {"metrics", "done"}
        /\ call[c].polygons = <<>>
        => ~Returned(c)

\* C5: a call that returns has the shape its target_layers fixes: without a
\* filter the features of the original entities and the original entity
\* list, with a filter the polygon features and the polygon list, each
\* followed by the point features.
C5_TwoModes ==
    \A c \in Calls :
        Returned(c) =>
            IF call[c].target_layers = TargetNone
            THEN /\ call[c].result[1].third = call[c].original_drawing_entities
                 /\ Features(c) =
                        [k \in 1..Len(call[c].original_drawing_entities) |->
                            drawing_feature(call[c].original_drawing_entities[k])]
                        \o call[c].features_non_geometry
            ELSE /\ call[c].result[1].third = call[c].polygons
                 /\ Features(c) = call[c].features \o call[c].features_non_geometry

\* Two calls have returned, one in each mode, each with features of its own
\* kind and a point feature.
C5_Witness ==
    /\ Returned(1) /\ Returned(2)
    /\ call[1].target_layers = TargetNone
    /\ call[2].target_layers # TargetNone
    /\ call[1].original_drawing_entities # <<>>
    /\ call[2].polygons # <<>>
    /\ call[2].features_non_geometry # <<>>

\* The valid, non-empty polygons of call c, in order.
Good(c) == SelectSeq(call[c].polygons, LAMBDA poly : is_valid(poly) /\ ~is_empty(poly))

\* C6: the reported area of every Region is the polygon's area times the
\* square of the scale factor, its reported perimeter the polygon's length
\* times the scale factor, and the emitted coordinates are the polygon's own,
\* whatever the scale factor.
C6_ScaleLinearity ==
    \A c \in Calls :
        Returned(c) =>
            /\ Len(Meta(c).constructions) = Len(Good(c))
            /\ \A k \in 1..Len(Good(c)) :
                /\ Meta(c).constructions[k].area =
                      area(Good(c)[k]) * call[c].scale_factor * call[c].scale_factor
                /\ Meta(c).constructions[k].perimeter =
                      length(Good(c)[k]) * call[c].scale_factor
                /\ call[c].features[k].geometry.coordinates = Good(c)[k].coords

\* A call with a scale factor above 1 has returned a Region.
C6_Witness ==
    /\ Returned(1)
    /\ call[1].scale_factor > 1
    /\ Meta(1).constructions # <<>>
    /\ Meta(1).constructions[1].area > area(Good(1)[1])

\* C7: the reported vertex count of every Region is the number of points of
\* its exterior ring without the closing duplicate; the closed 4-vertex
\* rectangle is reported with 4 vertices.
C7_VerticesExcludeClosingPoint ==
    \A c \in Calls :
        Returned(c) =>
            \A k \in 1..Len(Meta(c).constructions) :
                Meta(c).constructions[k].vertices = Len(Good(c)[k].coords) - 1

\* The keys of the metadata record.
MetadataKeys ==
    {"constructions", "total_constructions", "entities_per_layer", "layers",
     "total_area_m2", "total_perimeter_m", "total_entities_found"}

\* The totals of the metadata of call c are the sums over its constructions.
TotalsAreSums(c) ==
    /\ Meta(c).total_area_m2 =
          SeqSum([k \in 1..Len(Meta(c).constructions) |-> Meta(c).constructions[k].area])
    /\ Meta(c).total_perimeter_m =
          SeqSum([k \in 1..Len(Meta(c).constructions) |->
                      Meta(c).constructions[k].perimeter])
    /\ Meta(c).total_constructions = Len(Meta(c).constructions)

\* C8 as stated: the metadata totals are the sums over the constructions,
\* a total of the vertex counts among them.
C8_TotalsWithVertexTotal ==
    \A c \in Calls :
        Returned(c) =>
            /\ TotalsAreSums(c)
            /\ \E key \in DOMAIN Meta(c) \ MetadataKeys :
                Meta(c)[key] =
                    SeqSum([k \in 1..Len(Meta(c).constructions) |->
                                Meta(c).constructions[k].vertices])

\* C8 amended: after every polygon processed the running area and perimeter
\* totals are the sums over the constructions so far, the metadata carries
\* them with total_constructions the number of constructions, and it holds
\* no total of the vertex counts.
C8_RunningTotals ==
    \A c \in Calls :
        /\ call[c].total_area =
              SeqSum([k \in 1..Len(call[c].constructions) |->
                          call[c].constructions[k].area])
        /\ call[c].total_perimeter =
              SeqSum([k \in 1..Len(call[c].constructions) |->
                          call[c].constructions[k].perimeter])
        /\ Returned(c) =>
              /\ TotalsAreSums(c)
              /\ Meta(c).constructions = call[c].constructions
              /\ DOMAIN Meta(c) = MetadataKeys

\* A call with a scale factor above 1 has returned two Regions.
C8_Witness ==
    /\ Returned(1)
    /\ call[1].scale_factor > 1
    /\ Len(Meta(1).constructions) = 2
    /\ Meta(1).total_perimeter_m >
          Meta(1).constructions[1].perimeter

\* C9: a failure while converting one entity never makes the call raise.
C9_EntityFailureRecovered ==
    \A c \in Calls :
        ~(Raised(c) /\ call[c].error[1].type = "Exception")

\* The entities call c has counted so far.
Counted(c) ==
    SubSeq(call[c].entities_to_process, 1,
           IF Raised(c) /\ call[c].error[1].type = "Exception"
           THEN call[c].i ELSE call[c].i - 1)

Finished(c) == Returned(c) \/ Raised(c)

\* C10: two calls on the same document with the same scale_factor and
\* target_layers end with the same serialized collection, metadata and
\* error, however their steps interleave, and the layer-count table of a
\* call holds the entities this call has counted and nothing of the other.
C10_Idempotent ==
    /\ \A a \in Calls, b \in Calls :
          /\ Finished(a) /\ Finished(b)
          /\ call[a].target_layers = call[b].target_layers
          /\ call[a].scale_factor = call[b].scale_factor
          => /\ call[a].result = call[b].result
             /\ call[a].error = call[b].error
    /\ \A c \in Calls :
          SeqSum([k \in 1..Len(call[c].layer_count) |-> call[c].layer_count[k].count])
              = Len(Counted(c))

\* Two calls with the same filter have both returned a Region.
C10_Witness ==
    /\ Returned(1) /\ Returned(2)
    /\ call[1].target_layers = call[2].target_layers
    /\ call[1].target_layers # TargetNone
    /\ Meta(1).constructions # <<>>
    /\ Meta(2).entities_per_layer # <<>>

(***************************************************************************)
(* The collector on drawings with block references.                        *)
(***************************************************************************)
\* The collector's loop of call c is over.
Collected(c) == call[c].pc \notin {"idle", "collect", "walk"}

\* The model-space positions that hold a reference to a defined block.
Resolvable == {k \in 1..Len(msp) : msp[k].type = "INSERT" /\ msp[k].name \in DOMAIN Blocks}

\* The blocks that the blocks of names refer to, through n levels of
\* references.
RECURSIVE BlockClosure(_, _)
BlockClosure(names, n) ==
    IF n = 0 THEN names
    ELSE BlockClosure(
            names \cup {e.name : e \in {x \in UNION {Range(Blocks[b]) : b \in names} :
                                            x.type = "INSERT" /\ x.name \in DOMAIN Blocks}},
            n - 1)

\* C11: once the collector has run, the supported entities of every block
\* that a model-space reference reaches, directly or through the references
\* nested in its block at any depth, are among the collected entities.
C11_NestedBlocksFlattened ==
    Collected(1) =>
        \A k \in Resolvable :
            \A b \in BlockClosure({msp[k].name}, Cardinality(DOMAIN Blocks)) :
                Range(SelectSupported(Blocks[b])) \subseteq Range(call[1].all_raw)

\* C12: the collector's loop, once entered, comes to its end on every
\* drawing, those with a block that refers to itself included.
C12_CollectionTerminates ==
    (call[1].pc = "walk") ~> Collected(1)

\* A drawing with a reference to the circular block was collected.
C12_Witness ==
    /\ Collected(1)
    /\ \E k \in 1..Len(msp) : msp[k].type = "INSERT" /\ msp[k].name = "LOOP"

\* What one model-space entity contributes to the collected list.
Contribution(e) ==
    IF e.type \in supported_types THEN <<e>>
    ELSE IF e.type = "INSERT" /\ e.name \in DOMAIN Blocks
    THEN SelectSeq(Blocks[e.name], LAMBDA ve : ve.type \in supported_types)
    ELSE <<>>

\* C13: an entity of an unsupported kind and a reference to a block that
\* cannot be resolved contribute nothing and raise nothing: the collected
\* list is, in model-space order, every supported entity and the supported
\* entities of every resolvable reference, before and after the skipped ones.
C13_SkipsWithoutAborting ==
    /\ call[1].pc \in {"walk", "process"} => call[1].error = <<>>
    /\ Collected(1) =>
        call[1].all_raw = Flatten([k \in 1..Len(msp) |-> Contribution(msp[k])])

\* An unresolvable reference came first, and the entity after it was
\* collected.
C13_Witness ==
    /\ Collected(1)
    /\ Len(msp) = 2
    /\ msp[1].type = "INSERT" /\ msp[1].name \notin DOMAIN Blocks
    /\ call[1].all_raw = Contribution(msp[2])
    /\ call[1].all_raw # <<>>

(***************************************************************************)
(* The region reconstruction.                                              *)
(***************************************************************************)
\* The reconstruction of call c has run.
Reconstructed(c) == call[c].pc \in {"metrics", "done"}

HatchRegions(c) ==
    {poly \in UNION {Range(parse_hatch_to_polygons(call[c].entities_to_process[k])) :
                        k \in {n \in 1..Len(call[c].entities_to_process) :
                                call[c].entities_to_process[n].type = "HATCH"}} :
        is_valid(poly) /\ ~is_empty(poly)}

\* C15: once the entity loop has run over a hatch with a valid polygon, the
\* call does not raise the no-geometry error, and when it returns, in either
\* mode, the polygon is a construction of the metadata, with its area,
\* perimeter and vertex count, and a polygon feature of the collection.
C15_HatchRegionsInOutput ==
    \A c \in Calls :
        LoopDone(c) /\ HatchRegions(c) # {} =>
            /\ ~Raised(c)
            /\ Returned(c) =>
                \A poly \in HatchRegions(c) :
                    /\ construction(poly, call[c].scale_factor)
                            \in Range(Meta(c).constructions)
                    /\ polygon_feature(poly, call[c].scale_factor)
                            \in Range(Features(c))

(***************************************************************************)
(* The polygon loop.                                                       *)
(***************************************************************************)
\* The polygons of ps that are valid and not empty, in order.
GoodPolygons(ps) == SelectSeq(ps, LAMBDA poly : is_valid(poly) /\ ~is_empty(poly))

\* The polygons the loop of call c has passed.
Passed(c) == SubSeq(call[c].polygons, 1, call[c].j - 1)

Built(c) == call[c].pc \in {"process", "reconstruct", "raised"} /\ call[c].i > 1

\* The vertex pairs of the polyline that bulge_to_arc is called on, none
\* for fewer than 2 vertices: pair k is vertex k and the next one, the
\* closing pair is the last and the first.
Pairs(e) ==
    IF Len(e.pts) < 2 THEN {}
    ELSE {<<e.pts[k], e.pts[k + 1], e.bulges[k]>> : k \in 1..(Len(e.pts) - 1)}
         \cup (IF e.closed THEN {<<Last(e.pts), e.pts[1], Last(e.bulges)>>} ELSE {})

\* C17 as stated: on every vertex pair of the processed polyline, a bulge of
\* 0 gives exactly the two end points, and coinciding end points give a
\* single point whatever the bulge, 0 included.
C17_CoincidentAlwaysSinglePoint ==
    Built(1) =>
        \A p \in Pairs(msp[1]) :
            /\ p[3] = 0 => bulge_to_arc(p[1], p[2], p[3]) = <<p[1], p[2]>>
            /\ p[1] = p[2] => bulge_to_arc(p[1], p[2], p[3]) = <<p[1]>>

\* C17 amended: on every vertex pair of the processed polyline, a bulge of 0
\* gives exactly the two end points, also when they coincide, and coinciding
\* end points with a bulge other than 0 give a single point.
C17_ZeroBulgeBeforeChord ==
    Built(1) =>
        \A p \in Pairs(msp[1]) :
            /\ p[3] = 0 => bulge_to_arc(p[1], p[2], p[3]) = <<p[1], p[2]>>
            /\ p[3] # 0 /\ p[1] = p[2] => bulge_to_arc(p[1], p[2], p[3]) = <<p[1]>>

\* An open polyline of two coinciding vertices with bulge 0 was built into a
\* curve of two points.
C17_Witness ==
    /\ Built(1)
    /\ Len(msp[1].pts) = 2 /\ ~msp[1].closed
    /\ msp[1].pts[1] = msp[1].pts[2] /\ msp[1].bulges[1] = 0
    /\ call[1].lines = <<LineString(<<msp[1].pts[1], msp[1].pts[1]>>)>>

\* The points the claim gives for the curve of polyline e.
Tessellated(e) ==
    Flatten([k \in 1..(Len(e.pts) - 1) |->
                bulge_to_arc(e.pts[k], e.pts[k + 1], e.bulges[k])])
    \o (IF e.closed THEN bulge_to_arc(e.pts[Len(e.pts)], e.pts[1], e.bulges[Len(e.pts)])
        ELSE <<>>)

\* C19: the curve built from a polyline of at least 2 vertices is the
\* concatenation of the tessellations of its consecutive vertex pairs, each
\* with the bulge of its first vertex, followed, if and only if the polyline
\* is closed, by the tessellation from the last vertex to the first with the
\* last vertex's bulge; the curve of a closed polyline starts and ends at
\* the first vertex, that of an open one ends at the last vertex; points
\* that come to a single one build no curve.
C19_PolylineConcatenation ==
    Built(1) /\ Len(msp[1].pts) >= 2 =>
        /\ Len(Tessellated(msp[1])) >= 2
            => call[1].lines = <<LineString(Tessellated(msp[1]))>>
        /\ Len(Tessellated(msp[1])) < 2 => call[1].lines = <<>>
        /\ call[1].lines # <<>> =>
            /\ call[1].lines[1].coords[1] = msp[1].pts[1]
            /\ Last(call[1].lines[1].coords) =
                    IF msp[1].closed THEN msp[1].pts[1] ELSE Last(msp[1].pts)

\* A closed polyline of three distinct vertices, its last bulge unlike its
\* first, was built into a curve that returns to the first vertex.
C19_Witness ==
    /\ Built(1)
    /\ msp[1].closed /\ Len(msp[1].pts) = 3
    /\ Cardinality(Range(msp[1].pts)) = 3
    /\ msp[1].bulges[3] # msp[1].bulges[1] /\ msp[1].bulges[3] # 0
    /\ call[1].lines # <<>>
    /\ Last(call[1].lines[1].coords) = msp[1].pts[1]
    /\ Len(call[1].lines[1].coords) > Len(msp[1].pts) + 1

(***************************************************************************)
(* The layer filter and the layer counts.                                  *)
(***************************************************************************)
\* C18: once the collector has run, the entities handed on are exactly the
\* collected entities whose layer equals, letter case aside, one of the
\* names of target_layers (a str, list, tuple or set), in the order they were
\* collected in; with target_layers None they are all the collected entities.
C18_FilterKeepsMatchingInOrder ==
    \A c \in Calls :
        Collected(c) =>
            /\ call[c].target_layers.type \in {"None", "str", "list", "tuple", "set"}
            /\ call[c].target_layers.type = "None"
                => call[c].entities_to_process = all_raw_entities(msp)
            /\ call[c].target_layers.type # "None"
                => call[c].entities_to_process =
                        SelectSeq(all_raw_entities(msp),
                                  LAMBDA e : \E n \in call[c].target_layers.names :
                                                Upper(n) = Upper(e.layer))

\* A filter named NOTES kept the entity on layer Notes and dropped the one
\* on another layer.
C18_Witness ==
    /\ Collected(1)
    /\ call[1].target_layers = Target("set", {"NOTES"})
    /\ Len(msp) = 2
    /\ msp[1].layer = "WALL" /\ msp[2].layer = "Notes"
    /\ call[1].entities_to_process = <<msp[2]>>

\* The count the table of call c holds for layer l.
CountOf(c, l) ==
    SeqSum([k \in 1..Len(call[c].layer_count) |->
                IF call[c].layer_count[k].layer = l
                THEN call[c].layer_count[k].count ELSE 0])

\* C20: at every moment the count of a layer is the number of entities on
\* that layer handed to the geometry stage so far, whether or not they gave
\* a geometry, every layer being entered once; the layers of the returned
\* metadata are exactly the layers with a count of at least one.
C20_EveryEntityCountedOnce ==
    \A c \in Calls :
        /\ \A l \in {e.layer : e \in Catalog} :
                CountOf(c, l) =
                    Cardinality({k \in 1..Len(Counted(c)) : Counted(c)[k].layer = l})
        /\ Cardinality({call[c].layer_count[k].layer : k \in 1..Len(call[c].layer_count)})
                = Len(call[c].layer_count)
        /\ Returned(c) =>
                /\ Range(Meta(c).layers) =
                        {l \in {e.layer : e \in Catalog} : CountOf(c, l) >= 1}
                /\ Len(Meta(c).layers) = Cardinality(Range(Meta(c).layers))
                /\ Meta(c).entities_per_layer = call[c].layer_count

\* The call returned with two entities counted on one layer, one of them an
\* empty text that gave no geometry and no feature.
C20_Witness ==
    /\ Returned(1)
    /\ Len(call[1].entities_to_process) = 2
    /\ \E k \in 1..2 : call[1].entities_to_process[k].type = "MTEXT"
    /\ Meta(1).total_entities_found = 1
    /\ Meta(1).layers = <<"WALL">>
    /\ CountOf(1, "WALL") = 2

(***************************************************************************)
(* Text features.                                                          *)
(***************************************************************************)
\* The Point feature the claim gives for a text entity: none for an empty
\* text.
TextFeatureOf(e) ==
    IF e.type \in {"TEXT", "MTEXT"} /\ e.text # ""
    THEN <<[type |-> "Feature",
            geometry |-> [type |-> "Point", coordinates |-> e.pts],
            properties |-> [layer |-> e.layer, type |-> e.type,
                            text |-> e.text, height |-> e.height]]>>
    ELSE <<>>

\* C21: at every moment the point features are, in order, one feature for
\* each TEXT or MTEXT processed so far that has a text, with its layer, kind,
\* text and character height (None when it has none), and nothing for a text
\* entity that is empty; an empty text raises nothing, the entities after it
\* are processed, and the returned collection ends with these features.
C21_TextFeatures ==
    /\ call[1].features_non_geometry =
            Flatten([k \in 1..Len(Counted(1)) |-> TextFeatureOf(Counted(1)[k])])
    /\ ~(Raised(1) /\ call[1].error[1].type = "Exception")
    /\ Returned(1) =>
            /\ Len(Counted(1)) = Len(call[1].entities_to_process)
            /\ SubSeq(Features(1),
                      Len(Features(1)) - Len(call[1].features_non_geometry) + 1,
                      Len(Features(1))) = call[1].features_non_geometry

\* An empty text came first, a text without character height after it, and
\* the call returned the one feature, its height None.
C21_Witness ==
    /\ Returned(1)
    /\ Len(msp) = 2
    /\ msp[1].type = "MTEXT" /\ msp[1].text = ""
    /\ msp[2].text # "" /\ msp[2].height = None
    /\ Len(Features(1)) = 1
    /\ Features(1)[1].properties.height = None
    /\ Features(1)[1].properties.text = msp[2].text

(***************************************************************************)
(* The output assembler.                                                   *)
(***************************************************************************)
\* What entity e adds to the recorded curves and hatch regions: nothing when
\* it gives no curve and no valid hatch polygon.
RecordedOf(e) ==
    IF e.type \in LineLike
    THEN (IF geometry_obj(e) # <<>> /\ ~is_empty(geometry_obj(e)[1])
          THEN <<[geometry |-> geometry_obj(e)[1], layer |-> e.layer, type |-> e.type]>>
          ELSE <<>>)
    ELSE IF e.type = "HATCH"
    THEN LET good == GoodPolygons(parse_hatch_to_polygons(e))
         IN  [k \in 1..Len(good) |->
                [geometry |-> good[k], layer |-> e.layer, type |-> e.type]]
    ELSE <<>>

\* The recorded curves and hatch regions of call c, in processing order.
Recorded(c) ==
    Flatten([k \in 1..Len(call[c].entities_to_process) |->
                RecordedOf(call[c].entities_to_process[k])])

\* The point features of call c, in processing order.
PointFeatures(c) ==
    Flatten([k \in 1..Len(call[c].entities_to_process) |->
                TextFeatureOf(call[c].entities_to_process[k])])

Third(c) == call[c].result[1].third

C24_PreviewCollection ==
    \A c \in Calls :
        Returned(c) /\ call[c].target_layers = TargetNone =>
            /\ Len(Features(c)) = Meta(c).total_entities_found
            /\ Len(Features(c)) = Len(Recorded(c)) + Len(PointFeatures(c))
            /\ \A k \in 1..Len(Recorded(c)) :
                    /\ DOMAIN Features(c)[k].properties = {"layer", "type"}
                    /\ Features(c)[k].properties.layer = Recorded(c)[k].layer
                    /\ Features(c)[k].properties.type = Recorded(c)[k].type
                    /\ Features(c)[k].geometry = mapping(Recorded(c)[k].geometry)
            /\ \A k \in 1..Len(PointFeatures(c)) :
                    Features(c)[Len(Recorded(c)) + k] = PointFeatures(c)[k]
            /\ \A k \in 1..Len(Features(c)) :
                    "area" \notin DOMAIN Features(c)[k].properties

\* An unfiltered call returned the feature of a hatch region, annotated
\* with its layer and kind, followed by a point feature.
C24_Witness ==
    /\ Returned(1)
    /\ call[1].target_layers = TargetNone
    /\ Len(Features(1)) = 2
    /\ Meta(1).total_entities_found = 2
    /\ Features(1)[1].properties = [layer |-> "WALL", type |-> "HATCH"]
    /\ Features(1)[2].geometry.type = "Point"

=============================================================================
